---- MODULE Spec2Model ----
(***************************************************************************)
(* dizzy::flat_queue<T>: a FIFO queue kept in one std::vector<T> (data_)   *)
(* with an index of the first live element (true_front).  The model is of  *)
(* the latest version of the class (src/unnamed/part_000, lines 1-388).    *)
(*                                                                         *)
(* A std::vector is a record [elems, capacity]; a queue is a record        *)
(* [data_, true_front, compactions, direct].  The last two fields are      *)
(* history fields, reset when a public operation starts: compactions       *)
(* counts the runs of compress_and_reserve in the operation, direct counts *)
(* the reallocations data_ performed on its own (a push_back on a full     *)
(* vector, a data_.reserve, a data_.assign beyond the capacity).           *)
(***************************************************************************)
EXTENDS Integers, Sequences, FiniteSets, TLC

\* ------------------------------------------------------------------ bounds
MaxPush == 6        \* pushes in one behaviour of Spec
MaxReserve == 7     \* largest argument of reserve()
MaxLen == 3         \* longest buffer of either queue in SpecAll
Values == {1, 2}    \* element values (T is opaque to the queue)
\* multipliers handed to compress_and_reserve, as <<numerator, denominator>>
Mults == {<<1, 2>>, <<1, 1>>, <<3, 2>>, <<2, 1>>}
\* how a full std::vector grows on push_back is the library's choice:
\* libstdc++ and libc++ double, MSVC adds one half
Growth == {"double", "half"}

VARIABLES q, other, fifo, nPush, nPop, op, arg, budget
vars == <<q, other, fifo, nPush, nPop, op, arg, budget>>

Max(a, b) == IF a >= b THEN a ELSE b

\* ------------------------------------------------------------ std::vector
EmptyVector == [elems |-> <<>>, capacity |-> 0]

\* std::vector(first, last), std::vector(init), copy of a vector:
\* one allocation of exactly the element count
vector_from(s) == [elems |-> s, capacity |-> Len(s)]

\* capacity a full vector of capacity c moves to on push_back
vector_grow(c, g) ==
    IF g = "double" THEN Max(2 * c, c + 1) ELSE Max(c + (c \div 2), c + 1)

vector_push_back(v, x, g) ==
    IF Len(v.elems) = v.capacity
    THEN [elems |-> Append(v.elems, x), capacity |-> vector_grow(v.capacity, g)]
    ELSE [v EXCEPT !.elems = Append(@, x)]

\* std::vector::reserve: reallocates to n only when n exceeds the capacity
vector_reserve(v, n) ==
    IF n > v.capacity THEN [v EXCEPT !.capacity = n] ELSE v

\* std::vector::assign / operator=(initializer_list): storage is reused when
\* the new contents fit
vector_assign(v, s) ==
    IF Len(s) > v.capacity THEN vector_from(s) ELSE [v EXCEPT !.elems = s]

vector_clear(v) == [v EXCEPT !.elems = <<>>]

\* capacity of a vector of capacity c after push_backs up to need elements:
\* it grows, each time it is full, until the elements fit
RECURSIVE vector_grow_to(_, _, _)
vector_grow_to(c, need, g) ==
    IF c >= need THEN c ELSE vector_grow_to(vector_grow(c, g), need, g)

\* std::move(first, last, std::back_inserter(v)): one push_back per element
\* of s, in order
back_insert(v, s, g) ==
    [elems |-> v.elems \o s,
     capacity |-> vector_grow_to(v.capacity, Len(v.elems) + Len(s), g)]

\* ------------------------------------------------------------- flat_queue
\* a queue over buffer v with front index f, history fields cleared
Queue(v, f) == [data_ |-> v, true_front |-> f, compactions |-> 0, direct |-> 0]

\* flat_queue() = default
DefaultQueue == Queue(EmptyVector, 0)

\* the program's part of a queue record (history fields dropped)
State(x) == [data_ |-> x.data_, true_front |-> x.true_front]

\* history fields cleared: a public operation starts
Begin(x) == Queue(x.data_, x.true_front)

\* data_ replaced by the result v of a call on data_ itself; a changed
\* capacity is a reallocation done by the vector
on_data(x, v) ==
    [x EXCEPT !.data_ = v,
              !.direct = @ + (IF v.capacity # x.data_.capacity THEN 1 ELSE 0)]

empty(x) == Len(x.data_.elems) = x.true_front

size(x) == Len(x.data_.elems) - x.true_front

\* [begin(), end()): the elements from true_front to the end of data_
Window(x) == SubSeq(x.data_.elems, x.true_front + 1, Len(x.data_.elems))

CeilDiv(a, b) == (a + b - 1) \div b

\* ceil(size() * mult_factor) with mult_factor = num / den.  The doubles of
\* the code give the exact ceiling for every multiplier used here (1/2, 1,
\* 3/2 and 2 are exact doubles; in reserve, size() * (new_size / size())
\* rounds back to new_size for every size() <= 7 and new_size <= 28; the
\* smallest case where the double product exceeds new_size, and the ceiling
\* is new_size + 1, is reserve(29) on 7 elements).
\* mutant: the product is truncated instead of rounded up
ceil_mul_floor(s, num, den) == (s * num) \div den

ceil_mul(s, num, den) == CeilDiv(s * num, den)

\* mutant: the whole buffer is moved, dead prefix included (begin of data_
\* instead of begin())
compress_and_reserve_whole(x, num, den, g) ==
    LET tempContainer == vector_reserve(EmptyVector, ceil_mul(size(x), num, den))
        moved == back_insert(tempContainer, x.data_.elems, g)
    IN  [x EXCEPT !.data_ = moved,
                  !.true_front = 0,
                  !.compactions = @ + 1]

\* mutant: the elements are not carried over to the new buffer
compress_and_reserve_lossy(x, num, den, g) ==
    LET tempContainer == vector_reserve(EmptyVector, ceil_mul(size(x), num, den))
    IN  [x EXCEPT !.data_ = tempContainer,
                  !.true_front = 0,
                  !.compactions = @ + 1]

\* mutant: true_front is not reset
compress_and_reserve_keepfront(x, num, den, g) ==
    LET tempContainer == vector_reserve(EmptyVector, ceil_mul(size(x), num, den))
        moved == back_insert(tempContainer, Window(x), g)
    IN  [x EXCEPT !.data_ = moved,
                  !.compactions = @ + 1]

compress_and_reserve(x, num, den, g) ==
    LET tempContainer == vector_reserve(EmptyVector, ceil_mul(size(x), num, den))
        moved == back_insert(tempContainer, Window(x), g)
    IN  [x EXCEPT !.data_ = moved,
                  !.true_front = 0,
                  !.compactions = @ + 1]

\* the default argument of compress_and_reserve: mult_factor = 1.5
DefaultNum == 3
DefaultDen == 2

\* mutant: the logical size is compared with the capacity
check_and_grow_logical(x, g) ==
    IF size(x) = x.data_.capacity
    THEN compress_and_reserve(x, DefaultNum, DefaultDen, g)
    ELSE x

\* mutant: no growth before the append (push_back grows the vector)
check_and_grow_never(x, g) == x

\* mutant: a dead prefix is compacted away before every append
check_and_grow_eager(x, g) ==
    IF Len(x.data_.elems) = x.data_.capacity \/ x.true_front > 0
    THEN compress_and_reserve(x, DefaultNum, DefaultDen, g)
    ELSE x

\* mutant: a full buffer is compacted with the multiplier 2
check_and_grow_double(x, g) ==
    IF Len(x.data_.elems) = x.data_.capacity
    THEN compress_and_reserve(x, 2, 1, g)
    ELSE x

check_and_grow(x, g) ==
    IF Len(x.data_.elems) = x.data_.capacity
    THEN compress_and_reserve(x, DefaultNum, DefaultDen, g)
    ELSE x

push(x, val, g) ==
    LET grown == check_and_grow(x, g)
    IN  on_data(grown, vector_push_back(grown.data_, val, g))

emplace(x, val, g) ==
    LET grown == check_and_grow(x, g)
    IN  on_data(grown, vector_push_back(grown.data_, val, g))

\* mutant: >= in place of >
pop_geq(x, g) ==
    LET inc == [x EXCEPT !.true_front = @ + 1]
    IN  IF inc.true_front >= Len(inc.data_.elems) \div 2
        THEN compress_and_reserve(inc, DefaultNum, DefaultDen, g)
        ELSE inc

\* mutant: half of size() in place of half of data_.size()
pop_size_trigger(x, g) ==
    LET inc == [x EXCEPT !.true_front = @ + 1]
    IN  IF inc.true_front > size(inc) \div 2
        THEN compress_and_reserve(inc, DefaultNum, DefaultDen, g)
        ELSE inc

\* mutant: the compaction waits until the queue is empty
pop_when_empty(x, g) ==
    LET inc == [x EXCEPT !.true_front = @ + 1]
    IN  IF inc.true_front = Len(inc.data_.elems)
        THEN compress_and_reserve(inc, DefaultNum, DefaultDen, g)
        ELSE inc

\* mutant: an emptied queue is not compacted
pop_skip_empty(x, g) ==
    LET inc == [x EXCEPT !.true_front = @ + 1]
    IN  IF inc.true_front > Len(inc.data_.elems) \div 2 /\ ~empty(inc)
        THEN compress_and_reserve(inc, DefaultNum, DefaultDen, g)
        ELSE inc

\* mutant: every pop compacts (the front is erased from the buffer)
pop_always(x, g) ==
    compress_and_reserve([x EXCEPT !.true_front = @ + 1],
                         DefaultNum, DefaultDen, g)

pop(x, g) ==
    LET inc == [x EXCEPT !.true_front = @ + 1]
    IN  IF inc.true_front > Len(inc.data_.elems) \div 2
        THEN compress_and_reserve(inc, DefaultNum, DefaultDen, g)
        ELSE inc

\* mutant: the default multiplier in place of 1.0
shrink_to_fit_default(x, g) ==
    compress_and_reserve(x, DefaultNum, DefaultDen, g)

shrink_to_fit(x, g) == compress_and_reserve(x, 1, 1, g)

\* mutant: the requested size is dropped on a non-empty queue
reserve_ignores(x, new_size, g) ==
    IF empty(x)
    THEN on_data(x, vector_reserve(x.data_, new_size))
    ELSE compress_and_reserve(x, 1, 1, g)

\* mutant: new_size / size() as an integer division
reserve_intdiv(x, new_size, g) ==
    IF empty(x)
    THEN on_data(x, vector_reserve(x.data_, new_size))
    ELSE compress_and_reserve(x, new_size \div size(x), 1, g)

reserve(x, new_size, g) ==
    IF empty(x)
    THEN on_data(x, vector_reserve(x.data_, new_size))
    ELSE compress_and_reserve(x, new_size, size(x), g)

\* mutant: the storage is released with the elements
clear_release(x) == [on_data(x, EmptyVector) EXCEPT !.true_front = 0]

clear(x) == [on_data(x, vector_clear(x.data_)) EXCEPT !.true_front = 0]


\* mutant: room for the elements is taken, the elements are not stored
flat_queue_from_reserved(s) == Queue([elems |-> <<>>, capacity |-> Len(s)], 0)

\* flat_queue(const container&), flat_queue(first, last), flat_queue(init):
\* data_ is built from the elements, true_front takes its initializer 0
flat_queue_from(s) == Queue(vector_from(s), 0)

\* flat_queue(container&&): data_ takes over the vector, capacity included
flat_queue_take(v) == Queue(v, 0)

\* mutant: buffer and offset are copied as they are, dead prefix included
flat_queue_copy_raw(x) == Queue(vector_from(x.data_.elems), x.true_front)

\* flat_queue(const flat_queue& x): data_( std::begin(x), std::end(x) )
flat_queue_copy(x) == Queue(vector_from(Window(x)), 0)

\* flat_queue(flat_queue&& x) = default: memberwise move.  data_ takes over
\* the buffer of x.data_, which is left empty; true_front is a size_t, whose
\* move is a copy, so x keeps its value.  The pair <<new queue, x after>>.
flat_queue_move(x) ==
    << Queue(x.data_, x.true_front),
       [x EXCEPT !.data_ = EmptyVector] >>

\* operator=(flat_queue&& other) = default: memberwise move assignment, the
\* old buffer of *this is released.  The pair <<*this after, other after>>.
move_assign(x, y) ==
    << [x EXCEPT !.data_ = y.data_, !.true_front = y.true_front],
       [y EXCEPT !.data_ = EmptyVector] >>

\* mutant: the buffers are exchanged, the front indices are not
swap_data_only(x, y) ==
    << [x EXCEPT !.data_ = y.data_],
       [y EXCEPT !.data_ = x.data_] >>

\* swap(data_, x.data_); swap(true_front, x.true_front): the pair after it
swap(x, y) ==
    << [x EXCEPT !.data_ = y.data_, !.true_front = y.true_front],
       [y EXCEPT !.data_ = x.data_, !.true_front = x.true_front] >>

\* operator=(const flat_queue& other): temp(begin(other), end(other));
\* swap(temp); the result is *this.  temp is built by the range constructor
\* from the logical window of other.  (Inside the class the unqualified
\* begin(other) names the member begin(), which takes no argument: g++ 12
\* rejects an instantiation of this operator.  The model takes the range
\* the statement denotes, std::begin(other) to std::end(other), as the copy
\* constructor spells it.)
copy_assign(x, y) ==
    LET temp == flat_queue_from(Window(y))
    IN  swap(x, temp)[1]

\* assign(first, last), assign(init)
assign(x, s) == [on_data(x, vector_assign(x.data_, s)) EXCEPT !.true_front = 0]

\* operator=(std::initializer_list<T> init): data_ = init; true_front = 0;
\* and then control flows off the end of a function that returns
\* flat_queue&, which is undefined behaviour.  The outcomes builds give, as
\* [q |-> the queue, returned |-> whether the call came back]: the call
\* returns with the contents replaced (g++ 12 -O0), or it does not return
\* (abort at -O1, no termination at -O2 and -O3), with the two stores done
\* or dropped.
assign_list(x, s) ==
    LET stored == [on_data(x, vector_assign(x.data_, s)) EXCEPT !.true_front = 0]
    IN  { [q |-> stored, returned |-> TRUE],
          [q |-> stored, returned |-> FALSE],
          [q |-> x, returned |-> FALSE] }

\* data_[true_front]
front(x) == x.data_.elems[x.true_front + 1]

\* data_.back()
back(x) == x.data_.elems[Len(x.data_.elems)]

\* Positions in data_ are counted from 0, as the code counts them; the
\* element at position p is data_.elems[p + 1].

\* the position front() reads: data_[true_front]
front_index(x) == x.true_front

\* the position back() reads: data_.back()
back_index(x) == Len(x.data_.elems) - 1

\* mutant: the subscript is applied to the vector as it is
subscript_index_raw(x, pos) == pos

\* the position operator[](pos) reads: data_[true_front + pos]
subscript_index(x, pos) == x.true_front + pos

\* operator[]
operator_subscript(x, pos) == x.data_.elems[subscript_index(x, pos) + 1]

\* data(): the position data_.data() + true_front points to
data(x) == x.true_front

\* An iterator of data_ is the position it points to; a reverse iterator is
\* the position of its base: it reads the position before its base, and
\* incrementing it, or subtracting from it, moves the base the other way.

\* begin() and begin() const
begin(x) == 0 + x.true_front

\* end() and end() const
end(x) == Len(x.data_.elems)

\* cbegin()
cbegin(x) == 0 + x.true_front

\* cend()
cend(x) == Len(x.data_.elems)

\* rbegin() and rbegin() const
rbegin(x) == Len(x.data_.elems)

\* mutant: the reverse end of the vector, dead prefix included
rend_plain(x) == 0

\* rend() and rend() const: data_.rend() - true_front
rend(x) == 0 + x.true_front

\* crbegin()
crbegin(x) == Len(x.data_.elems)

\* crend()
crend(x) == 0 + x.true_front

\* std::equal(first1, last1, first2): the elements of a against the
\* elements of b at the same distance from first2
std_equal(a, b) == \A i \in 1..Len(a) : a[i] = b[i]

\* std::lexicographical_compare(first1, last1, first2, last2)
RECURSIVE lexicographical_compare(_, _)
lexicographical_compare(a, b) ==
    IF a = <<>> \/ b = <<>> THEN a = <<>> /\ b # <<>>
    ELSE IF Head(a) < Head(b) THEN TRUE
    ELSE IF Head(b) < Head(a) THEN FALSE
    ELSE lexicographical_compare(Tail(a), Tail(b))

\* mutant: the vectors are compared, dead prefixes included
operator_eq_raw(lhs, rhs) ==
    IF Len(lhs.data_.elems) # Len(rhs.data_.elems) THEN FALSE
    ELSE std_equal(lhs.data_.elems, rhs.data_.elems)

\* operator==
operator_eq(lhs, rhs) ==
    IF size(lhs) # size(rhs) THEN FALSE
    ELSE std_equal(Window(lhs), Window(rhs))

\* operator!=
operator_ne(lhs, rhs) == ~operator_eq(lhs, rhs)

\* mutant: the vectors are compared, dead prefixes included
operator_lt_raw(lhs, rhs) ==
    lexicographical_compare(lhs.data_.elems, rhs.data_.elems)

\* operator<.  (The unqualified begin(lhs), end(lhs) are found by
\* argument-dependent lookup only: the operator compiles for element types
\* that bring in namespace std, such as std::string, and not for int.)
operator_lt(lhs, rhs) == lexicographical_compare(Window(lhs), Window(rhs))

\* mutant: the operands are not exchanged
operator_le_same(lhs, rhs) == ~operator_lt(lhs, rhs)

\* operator<=
operator_le(lhs, rhs) == ~operator_lt(rhs, lhs)

\* operator>
operator_gt(lhs, rhs) == operator_lt(rhs, lhs)

\* operator>=
operator_ge(lhs, rhs) == ~operator_lt(lhs, rhs)

\* ------------------------------------------- allocation failure
\* An allocation of room for n elements succeeds when n <= limit and throws
\* std::bad_alloc otherwise; limit stands for the memory left at the call.
\* An operation that may throw yields [q |-> the queue it leaves,
\* thrown |-> whether it threw].
Returned(x) == [q |-> x, thrown |-> FALSE]

Thrown(x) == [q |-> x, thrown |-> TRUE]

\* a call on data_ itself that takes data_ to v: a std::vector that has to
\* reallocate and cannot is left as it was
try_on_data(x, v, limit) ==
    IF v.capacity # x.data_.capacity /\ v.capacity > limit
    THEN Thrown(x)
    ELSE Returned(on_data(x, v))

\* compress_and_reserve: tempContainer.reserve and the push_backs of the
\* back_inserter allocate for tempContainer, the largest request being the
\* capacity tempContainer ends with; data_ and true_front are written after
\* them.  (Elements are moved as trivially movable ones are: a throw after
\* some were moved leaves their values in data_.)
try_compress_and_reserve(x, num, den, g, limit) ==
    LET done == compress_and_reserve(x, num, den, g)
    IN  IF done.data_.capacity > limit THEN Thrown(x) ELSE Returned(done)

try_check_and_grow(x, g, limit) ==
    IF Len(x.data_.elems) = x.data_.capacity
    THEN try_compress_and_reserve(x, DefaultNum, DefaultDen, g, limit)
    ELSE Returned(x)

try_push(x, val, g, limit) ==
    LET grown == try_check_and_grow(x, g, limit)
    IN  IF grown.thrown THEN grown
        ELSE try_on_data(grown.q, vector_push_back(grown.q.data_, val, g), limit)

try_emplace(x, val, g, limit) ==
    LET grown == try_check_and_grow(x, g, limit)
    IN  IF grown.thrown THEN grown
        ELSE try_on_data(grown.q, vector_push_back(grown.q.data_, val, g), limit)

\* ++true_front comes before the call of compress_and_reserve
try_pop(x, g, limit) ==
    LET inc == [x EXCEPT !.true_front = @ + 1]
    IN  IF inc.true_front > Len(inc.data_.elems) \div 2
        THEN try_compress_and_reserve(inc, DefaultNum, DefaultDen, g, limit)
        ELSE Returned(inc)

try_shrink_to_fit(x, g, limit) == try_compress_and_reserve(x, 1, 1, g, limit)

try_reserve(x, new_size, g, limit) ==
    IF empty(x)
    THEN try_on_data(x, vector_reserve(x.data_, new_size), limit)
    ELSE try_compress_and_reserve(x, new_size, size(x), g, limit)

\* mutant: *this is emptied before the copy is built
try_copy_assign_inplace(x, y, limit) ==
    IF Len(Window(y)) > limit
    THEN Thrown(clear(x))
    ELSE Returned(copy_assign(x, y))

\* operator=(const flat_queue& other): the range constructor of temp
\* allocates for the logical elements of other; swap and return follow it
try_copy_assign(x, y, limit) ==
    IF Len(Window(y)) > limit
    THEN Thrown(x)
    ELSE Returned(copy_assign(x, y))

\* ------------------------------------------------- one queue: Spec
\* q is the queue; fifo is the abstract FIFO sequence (pushed values, the
\* popped ones removed), nPush and nPop count the calls, op and arg name the
\* last call (arg is the size given to reserve, the multiplier given to
\* compress_and_reserve as <<numerator, denominator>>, 0 otherwise), budget is the number of pushes a preceding reserve(n) with
\* n >= size() still covers (n - size() at the reserve, one less per push,
\* 0 after any other call).
Init ==
    /\ q = DefaultQueue
    /\ other = DefaultQueue
    /\ fifo = <<>>
    /\ nPush = 0
    /\ nPop = 0
    /\ op = "init"
    /\ arg = 0
    /\ budget = 0

Push ==
    /\ nPush < MaxPush
    /\ \E val \in Values, g \in Growth :
          /\ q' = push(Begin(q), val, g)
          /\ fifo' = Append(fifo, val)
    /\ nPush' = nPush + 1
    /\ op' = "push"
    /\ arg' = 0
    /\ budget' = Max(budget - 1, 0)
    /\ UNCHANGED <<other, nPop>>

Emplace ==
    /\ nPush < MaxPush
    /\ \E val \in Values, g \in Growth :
          /\ q' = emplace(Begin(q), val, g)
          /\ fifo' = Append(fifo, val)
    /\ nPush' = nPush + 1
    /\ op' = "emplace"
    /\ arg' = 0
    /\ budget' = Max(budget - 1, 0)
    /\ UNCHANGED <<other, nPop>>

\* precondition of pop(): the queue is not empty
Pop ==
    /\ ~empty(q)
    /\ \E g \in Growth : q' = pop(Begin(q), g)
    /\ fifo' = IF fifo = <<>> THEN <<>> ELSE Tail(fifo)
    /\ nPop' = nPop + 1
    /\ op' = "pop"
    /\ arg' = 0
    /\ budget' = 0
    /\ UNCHANGED <<other, nPush>>

Reserve ==
    /\ \E new_size \in 0..MaxReserve, g \in Growth :
          /\ q' = reserve(Begin(q), new_size, g)
          /\ arg' = new_size
          /\ budget' = IF new_size >= size(q) THEN new_size - size(q) ELSE 0
    /\ op' = "reserve"
    /\ UNCHANGED <<other, fifo, nPush, nPop>>

ShrinkToFit ==
    /\ \E g \in Growth : q' = shrink_to_fit(Begin(q), g)
    /\ op' = "shrink_to_fit"
    /\ arg' = 0
    /\ budget' = 0
    /\ UNCHANGED <<other, fifo, nPush, nPop>>

CompressAndReserve ==
    /\ \E m \in Mults, g \in Growth :
          /\ q' = compress_and_reserve(Begin(q), m[1], m[2], g)
          /\ arg' = m
    /\ op' = "compress_and_reserve"
    /\ budget' = 0
    /\ UNCHANGED <<other, fifo, nPush, nPop>>

Next ==
    \/ Push
    \/ Emplace
    \/ Pop
    \/ Reserve
    \/ ShrinkToFit
    \/ CompressAndReserve

Spec == Init /\ [][Next]_vars


\* ------------------------------------------------ two queues: SpecAll
\* Every public operation that changes a queue, on q, with a second queue
\* other that swap exchanges with q and copy construction and copy
\* assignment read.  Pushes stop at MaxLen elements in the buffer.
SeqsUpTo(n) == UNION {[1..k -> Values] : k \in 0..n}

Ghosts == <<fifo, nPush, nPop, op, arg, budget>>

AllConstruct ==
    /\ \E s \in SeqsUpTo(MaxLen) : q' = flat_queue_from(s)
    /\ UNCHANGED other
    /\ UNCHANGED Ghosts

AllConstructTake ==
    /\ \E s \in SeqsUpTo(MaxLen) : \E c \in Len(s)..MaxLen :
          q' = flat_queue_take([elems |-> s, capacity |-> c])
    /\ UNCHANGED other
    /\ UNCHANGED Ghosts

AllCopyConstruct ==
    /\ q' = flat_queue_copy(other)
    /\ UNCHANGED other
    /\ UNCHANGED Ghosts

AllCopyAssign ==
    /\ q' = copy_assign(Begin(q), other)
    /\ UNCHANGED other
    /\ UNCHANGED Ghosts

AllAssign ==
    /\ \E s \in SeqsUpTo(MaxLen) : q' = assign(Begin(q), s)
    /\ UNCHANGED other
    /\ UNCHANGED Ghosts

AllClear ==
    /\ q' = clear(Begin(q))
    /\ UNCHANGED other
    /\ UNCHANGED Ghosts

AllSwap ==
    /\ q' = swap(Begin(q), Begin(other))[1]
    /\ other' = swap(Begin(q), Begin(other))[2]
    /\ UNCHANGED Ghosts

AllPush ==
    /\ Len(q.data_.elems) < MaxLen
    /\ \E val \in Values, g \in Growth : q' = push(Begin(q), val, g)
    /\ UNCHANGED other
    /\ UNCHANGED Ghosts

AllEmplace ==
    /\ Len(q.data_.elems) < MaxLen
    /\ \E val \in Values, g \in Growth : q' = emplace(Begin(q), val, g)
    /\ UNCHANGED other
    /\ UNCHANGED Ghosts

AllPop ==
    /\ ~empty(q)
    /\ \E g \in Growth : q' = pop(Begin(q), g)
    /\ UNCHANGED other
    /\ UNCHANGED Ghosts

AllReserve ==
    /\ \E new_size \in 0..(MaxLen + 1), g \in Growth :
          q' = reserve(Begin(q), new_size, g)
    /\ UNCHANGED other
    /\ UNCHANGED Ghosts

AllShrinkToFit ==
    /\ \E g \in Growth : q' = shrink_to_fit(Begin(q), g)
    /\ UNCHANGED other
    /\ UNCHANGED Ghosts

AllCompressAndReserve ==
    /\ \E m \in Mults, g \in Growth :
          q' = compress_and_reserve(Begin(q), m[1], m[2], g)
    /\ UNCHANGED other
    /\ UNCHANGED Ghosts

NextAll ==
    \/ AllConstruct
    \/ AllConstructTake
    \/ AllCopyConstruct
    \/ AllCopyAssign
    \/ AllAssign
    \/ AllClear
    \/ AllSwap
    \/ AllPush
    \/ AllEmplace
    \/ AllPop
    \/ AllReserve
    \/ AllShrinkToFit
    \/ AllCompressAndReserve

SpecAll == Init /\ [][NextAll]_vars


\* ------------------------------------- 100 pushes, 60 pops: SpecScenario4
\* One behaviour: 100 pushes on a default-constructed queue, then 60 pops.
ScenarioPush ==
    /\ nPop = 0
    /\ nPush < 100
    /\ \E g \in Growth :
          q' = push(Begin(q), 1 + (nPush % 2), g)
    /\ fifo' = Append(fifo, 1 + (nPush % 2))
    /\ nPush' = nPush + 1
    /\ op' = "push"
    /\ UNCHANGED <<other, nPop, arg, budget>>

ScenarioPop ==
    /\ nPush = 100
    /\ nPop < 60
    /\ \E g \in Growth : q' = pop(Begin(q), g)
    /\ fifo' = IF fifo = <<>> THEN <<>> ELSE Tail(fifo)
    /\ nPop' = nPop + 1
    /\ op' = "pop"
    /\ UNCHANGED <<other, nPush, arg, budget>>

NextScenario4 ==
    \/ ScenarioPush
    \/ ScenarioPop

SpecScenario4 == Init /\ [][NextScenario4]_vars

\* ------------------------------------------------------------ properties
Pushes == {"push", "emplace"}

\* C1: the logical window [true_front, data_.size()), read front to back, is
\* the abstract FIFO sequence, and front() is its head, after any sequence
\* of push, emplace, pop, reserve, shrink_to_fit and compress_and_reserve.
FifoRefinement ==
    /\ Window(q) = fifo
    /\ fifo # <<>> => front(q) = Head(fifo)

FifoRefinementWitness ==
    /\ op = "pop"
    /\ q.compactions = 1
    /\ nPop >= 2
    /\ Len(fifo) >= 2
    /\ fifo[1] # fifo[2]

\* C2: size() is the number of pushes minus the number of pops.
SizeIsPushesMinusPops == size(q) = nPush - nPop

SizeIsPushesMinusPopsWitness ==
    /\ nPush >= 5
    /\ nPop >= 3
    /\ size(q) = 2
    /\ q.compactions = 1

\* C3: 0 <= true_front <= data_.size() <= data_.capacity() for both queues
\* after every public operation.
Structural(x) ==
    /\ 0 <= x.true_front
    /\ x.true_front <= Len(x.data_.elems)
    /\ Len(x.data_.elems) <= x.data_.capacity

StructuralInvariant == Structural(q) /\ Structural(other)

StructuralInvariantWitness ==
    /\ q.true_front > 0
    /\ other.true_front > 0
    /\ q.compactions = 0
    /\ Len(other.data_.elems) < other.data_.capacity

\* C4: pop() adds 1 to true_front and compacts exactly when the new
\* true_front exceeds half the buffer length; a compacting pop leaves
\* true_front 0 and the buffer as long as the new logical size, any other pop
\* leaves the buffer and its capacity as they were.
PopStep ==
    [][op' = "pop" =>
        LET inc == q.true_front + 1
            len == Len(q.data_.elems)
        IN  /\ (q'.compactions = 1) <=> (inc > len \div 2)
            /\ q'.compactions \in {0, 1}
            /\ q'.compactions = 1 =>
                  /\ q'.true_front = 0
                  /\ Len(q'.data_.elems) = len - inc
                  /\ size(q') = size(q) - 1
            /\ q'.compactions = 0 =>
                  /\ q'.true_front = inc
                  /\ q'.data_ = q.data_]_vars

PopStepWitness ==
    /\ op = "pop"
    /\ q.compactions = 1
    /\ q.true_front = 0
    /\ size(q) >= 2

\* C5 as stated: after 100 pushes and 60 pops the buffer is as long as the
\* logical size, 40, and true_front is 0.
Scenario4AsStated ==
    (nPush = 100 /\ nPop = 60) =>
        /\ size(q) = 40
        /\ Len(q.data_.elems) = 40
        /\ q.true_front = 0

\* C5, amended: the reclaim runs at the 51st pop, the first one with
\* true_front > 50, and leaves a buffer of 49 elements with true_front 0;
\* after the 60th pop size() is 40, the buffer holds 49 elements and
\* true_front is 9.
Scenario4 ==
    /\ (nPush = 100 /\ nPop = 51) =>
          /\ q.compactions = 1
          /\ Len(q.data_.elems) = 49
          /\ q.true_front = 0
    /\ (nPush = 100 /\ nPop = 60) =>
          /\ size(q) = 40
          /\ Len(q.data_.elems) = 49
          /\ q.true_front = 9

Scenario4Witness == nPush = 100 /\ nPop = 60 /\ op = "pop"

\* C6 as stated: a pop that reclaims leaves the capacity at
\* ceil(2.0 * size()), which is 2 * size().
ReclaimMultiplierIsTwo ==
    (op = "pop" /\ q.compactions = 1) => q.data_.capacity = 2 * size(q)

\* C7 as stated: a push or emplace on a full buffer leaves true_front 0, a
\* capacity larger than before, and the new element last behind the earlier
\* ones in their order.
PushOnFullAsStated ==
    [][(op' \in Pushes /\ Len(q.data_.elems) = q.data_.capacity) =>
        /\ q'.true_front = 0
        /\ q'.data_.capacity > q.data_.capacity
        /\ Window(q') = Append(Window(q), fifo'[Len(fifo')])]_vars

\* C7, amended: a push or emplace on a full buffer compacts and appends:
\* true_front is 0, the capacity exceeds the logical size before the call
\* (and the capacity before the call when there was no dead prefix), and the
\* new element is last behind the earlier ones in their order.
PushOnFull ==
    [][(op' \in Pushes /\ Len(q.data_.elems) = q.data_.capacity) =>
        /\ q'.compactions = 1
        /\ q'.true_front = 0
        /\ q'.data_.capacity > size(q)
        /\ q.true_front = 0 => q'.data_.capacity > q.data_.capacity
        /\ Window(q') = Append(Window(q), fifo'[Len(fifo')])]_vars

PushOnFullWitness ==
    /\ op = "push"
    /\ q.compactions = 1
    /\ q.direct = 0
    /\ size(q) = 3
    /\ q.data_.capacity = 3

\* C8 as stated: data_ never reallocates on its own in push, emplace, pop,
\* reserve and shrink_to_fit.
OnlyCompactionReallocatesAsStated ==
    op \in (Pushes \cup {"pop", "reserve", "shrink_to_fit"}) => q.direct = 0

\* C8, amended: data_ reallocates on its own only in reserve() on an empty
\* queue and in the append of a push or emplace on an empty queue; every
\* other change of capacity in push, emplace, pop, reserve and shrink_to_fit
\* is made by compress_and_reserve.
OnlyCompactionReallocates ==
    [][op' \in (Pushes \cup {"pop", "reserve", "shrink_to_fit"}) =>
        /\ q'.direct > 0 =>
              \/ op' = "reserve" /\ empty(q)
              \/ op' \in Pushes /\ size(q) = 0
        /\ (q'.data_.capacity # q.data_.capacity /\ q'.direct = 0) =>
              q'.compactions > 0]_vars

OnlyCompactionReallocatesWitness ==
    /\ op = "emplace"
    /\ q.compactions = 1
    /\ q.direct = 0
    /\ size(q) >= 2
    /\ q.data_.capacity > 3

\* C9: after reserve(n) with n >= size() the next n - size() consecutive
\* pushes or emplaces neither compact nor reallocate.
ReserveCoversPushes ==
    [][(op' \in Pushes /\ budget > 0) =>
        /\ q'.compactions = 0
        /\ q'.direct = 0
        /\ q'.data_.capacity = q.data_.capacity]_vars

ReserveCoversPushesWitness ==
    /\ op \in Pushes
    /\ budget >= 1
    /\ size(q) >= 4
    /\ q.compactions = 0
    /\ q.direct = 0

\* C10 as stated: reserve(n) with n < size() leaves buffer contents, buffer
\* length, capacity and true_front as they were.
ReserveBelowSizeDoesNothing ==
    [][(op' = "reserve" /\ arg' < size(q)) => State(q') = State(q)]_vars


\* C11: after reserve(n), for every n, the capacity is at least n and at
\* least size(), and the logical contents are those before the call.
ReserveCapacity ==
    [][op' = "reserve" =>
        /\ q'.data_.capacity >= arg'
        /\ q'.data_.capacity >= size(q)
        /\ Window(q') = Window(q)]_vars

ReserveCapacityWitness ==
    /\ op = "reserve"
    /\ arg < size(q)
    /\ size(q) >= 3
    /\ q.compactions = 1

\* C12: compress_and_reserve(m) with m >= 1 keeps size() and every logical
\* element, sets true_front to 0 and the buffer length to the logical size,
\* and makes the capacity ceil(size() * m).
CompactionPostcondition ==
    [][(op' = "compress_and_reserve" /\ arg'[1] >= arg'[2]) =>
        /\ size(q') = size(q)
        /\ \A i \in 1..size(q) :
              q'.data_.elems[i] = q.data_.elems[q.true_front + i]
        /\ q'.true_front = 0
        /\ Len(q'.data_.elems) = size(q)
        /\ q'.data_.capacity * arg'[2] >= size(q) * arg'[1]
        /\ (q'.data_.capacity - 1) * arg'[2] < size(q) * arg'[1]]_vars

CompactionPostconditionWitness ==
    /\ op = "compress_and_reserve"
    /\ arg = <<3, 2>>
    /\ size(q) = 3
    /\ q.data_.capacity = 5
    /\ nPop >= 1

\* C13: shrink_to_fit() makes the capacity size(), with true_front 0 and the
\* logical contents kept, and a second call right after it changes nothing.
ShrinkToFitExact ==
    [][op' = "shrink_to_fit" =>
        /\ q'.data_.capacity = size(q)
        /\ q'.true_front = 0
        /\ q'.data_.elems = Window(q)
        /\ \A g \in Growth :
              State(shrink_to_fit(Begin(q'), g)) = State(q')]_vars

ShrinkToFitExactWitness ==
    /\ op = "shrink_to_fit"
    /\ size(q) >= 2
    /\ q.data_.capacity = size(q)
    /\ nPop >= 1


\* ------------------------------------------------- moves: SpecMove
\* q is pushed to and popped from, and moved into other by move construction
\* or move assignment.  fifo holds the logical contents q had before the
\* last move.  A moved-from q is cleared before it is used again; push and
\* pop are taken only while true_front <= data_.size() (size() is a size_t:
\* on a moved-from queue with a stale true_front it wraps around).
MovePush ==
    /\ q.true_front <= Len(q.data_.elems)
    /\ Len(q.data_.elems) < MaxLen
    /\ \E val \in Values, g \in Growth : q' = push(Begin(q), val, g)
    /\ op' = "push"
    /\ UNCHANGED <<other, fifo, nPush, nPop, arg, budget>>

MovePop ==
    /\ q.true_front < Len(q.data_.elems)
    /\ \E g \in Growth : q' = pop(Begin(q), g)
    /\ op' = "pop"
    /\ UNCHANGED <<other, fifo, nPush, nPop, arg, budget>>

MoveClear ==
    /\ q' = clear(Begin(q))
    /\ op' = "clear"
    /\ UNCHANGED <<other, fifo, nPush, nPop, arg, budget>>

MoveConstruct ==
    /\ other' = flat_queue_move(Begin(q))[1]
    /\ q' = flat_queue_move(Begin(q))[2]
    /\ fifo' = Window(q)
    /\ op' = "move_construct"
    /\ UNCHANGED <<nPush, nPop, arg, budget>>

MoveAssign ==
    /\ other' = move_assign(Begin(other), Begin(q))[1]
    /\ q' = move_assign(Begin(other), Begin(q))[2]
    /\ fifo' = Window(q)
    /\ op' = "move_assign"
    /\ UNCHANGED <<nPush, nPop, arg, budget>>

NextMove ==
    \/ MovePush
    \/ MovePop
    \/ MoveClear
    \/ MoveConstruct
    \/ MoveAssign

SpecMove == Init /\ [][NextMove]_vars

\* C14 as stated: after a move construction or move assignment the source
\* is empty, with true_front 0 and an empty buffer, and the destination
\* holds the former logical contents of the source.
MoveLeavesSourceEmpty ==
    op \in {"move_construct", "move_assign"} =>
        /\ Len(q.data_.elems) = 0
        /\ q.true_front = 0
        /\ size(q) = 0
        /\ empty(q)
        /\ Window(other) = fifo

\* ------------------------------------------------- copies: SpecCopy
\* other is the source, q the target of copy construction and copy
\* assignment; both are pushed to and popped from.
CopySourcePush ==
    /\ Len(other.data_.elems) < MaxLen
    /\ \E val \in Values, g \in Growth : other' = push(Begin(other), val, g)
    /\ op' = "source_push"
    /\ UNCHANGED <<q, fifo, nPush, nPop, arg, budget>>

CopySourcePop ==
    /\ ~empty(other)
    /\ \E g \in Growth : other' = pop(Begin(other), g)
    /\ op' = "source_pop"
    /\ UNCHANGED <<q, fifo, nPush, nPop, arg, budget>>

CopyPush ==
    /\ Len(q.data_.elems) < MaxLen
    /\ \E val \in Values, g \in Growth : q' = push(Begin(q), val, g)
    /\ op' = "push"
    /\ UNCHANGED <<other, fifo, nPush, nPop, arg, budget>>

CopyPop ==
    /\ ~empty(q)
    /\ \E g \in Growth : q' = pop(Begin(q), g)
    /\ op' = "pop"
    /\ UNCHANGED <<other, fifo, nPush, nPop, arg, budget>>

CopyConstruct ==
    /\ q' = flat_queue_copy(other)
    /\ op' = "copy_construct"
    /\ UNCHANGED <<other, fifo, nPush, nPop, arg, budget>>

CopyAssign ==
    /\ q' = copy_assign(Begin(q), other)
    /\ op' = "copy_assign"
    /\ UNCHANGED <<other, fifo, nPush, nPop, arg, budget>>

NextCopy ==
    \/ CopySourcePush
    \/ CopySourcePop
    \/ CopyPush
    \/ CopyPop
    \/ CopyConstruct
    \/ CopyAssign

SpecCopy == Init /\ [][NextCopy]_vars

SameLogical(a, b) ==
    /\ Len(a) = Len(b)
    /\ \A i \in 1..Len(a) : a[i] = b[i]

\* a precedes b in the lexicographic order: at the first index where they
\* differ a is smaller, or a is a proper prefix of b
LexLess(a, b) ==
    \E k \in 0..Len(a) :
        /\ k <= Len(b)
        /\ \A i \in 1..k : a[i] = b[i]
        /\ \/ k = Len(a) /\ k < Len(b)
           \/ k < Len(a) /\ k < Len(b) /\ a[k + 1] < b[k + 1]

\* C16: operator== is true exactly when the two queues have the same logical
\* size and equal logical elements in order, whatever their dead prefixes.
EqualityIsLogical ==
    /\ operator_eq(q, other) <=> SameLogical(Window(q), Window(other))
    /\ operator_eq(other, q) <=> SameLogical(Window(other), Window(q))

EqualityIsLogicalWitness ==
    /\ q.data_.elems = <<1, 2, 1>>
    /\ q.true_front = 1
    /\ other.data_.elems = <<2, 1>>
    /\ other.true_front = 0
    /\ operator_eq(q, other)

\* C17: operator< is the lexicographic order of the two logical windows, and
\* it gives the same answer on queues rebuilt from the logical contents
\* alone, without dead prefixes.
LessIsLexicographic ==
    /\ operator_lt(q, other) <=> LexLess(Window(q), Window(other))
    /\ operator_lt(other, q) <=> LexLess(Window(other), Window(q))
    /\ operator_lt(q, other) <=>
          operator_lt(flat_queue_from(Window(q)), flat_queue_from(Window(other)))

LessIsLexicographicWitness ==
    /\ q.true_front = 1
    /\ other.true_front = 0
    /\ size(q) = 1
    /\ size(other) = 2
    /\ front(q) = front(other)
    /\ front(q) < q.data_.elems[1]
    /\ operator_lt(q, other)

\* C18: the six relational operators are one total order: exactly one of
\* a < b, a == b, a > b holds, and !=, >, <=, >= are as derived from them.
Trichotomy(a, b) ==
    /\ operator_lt(a, b) \/ operator_eq(a, b) \/ operator_gt(a, b)
    /\ ~(operator_lt(a, b) /\ operator_eq(a, b))
    /\ ~(operator_lt(a, b) /\ operator_gt(a, b))
    /\ ~(operator_eq(a, b) /\ operator_gt(a, b))
    /\ operator_ne(a, b) <=> ~operator_eq(a, b)
    /\ operator_gt(a, b) <=> operator_lt(b, a)
    /\ operator_le(a, b) <=> (operator_lt(a, b) \/ operator_eq(a, b))
    /\ operator_ge(a, b) <=> (operator_gt(a, b) \/ operator_eq(a, b))

ConsistentOrder == Trichotomy(q, other) /\ Trichotomy(other, q)

ConsistentOrderWitness ==
    /\ q.true_front > 0
    /\ other.true_front > 0
    /\ q.data_.elems[1] < other.data_.elems[1]
    /\ operator_gt(q, other)
    /\ operator_ge(q, other)
    /\ ~operator_le(q, other)

\* ------------------------------------------------- iteration, accessors
\* the positions read by: for (it = first; it != last; ++it) read *it
RECURSIVE Forward(_, _)
Forward(first, last) ==
    IF first = last THEN <<>> ELSE <<first>> \o Forward(first + 1, last)

\* the same loop over reverse iterators, given by their bases
RECURSIVE Backward(_, _)
Backward(first, last) ==
    IF first = last THEN <<>> ELSE <<first - 1>> \o Backward(first - 1, last)

Reversed(s) == [i \in 1..Len(s) |-> s[Len(s) + 1 - i]]

IterationOf(x) ==
    LET fw == Forward(begin(x), end(x))
        rv == Backward(rbegin(x), rend(x))
    IN  /\ Len(fw) = size(x)
        /\ \A i \in 1..Len(fw) : fw[i] = x.true_front + i - 1
        /\ [i \in 1..Len(fw) |-> x.data_.elems[fw[i] + 1]] = Window(x)
        /\ rv = Reversed(fw)
        /\ \A i \in 1..Len(fw) : fw[i] >= x.true_front
        /\ \A i \in 1..Len(rv) : rv[i] >= x.true_front
        /\ Forward(cbegin(x), cend(x)) = fw
        /\ Backward(crbegin(x), crend(x)) = rv

\* C19: walking from begin() to end() visits exactly size() elements, the
\* buffer positions true_front .. L-1 in FIFO order; walking from rbegin()
\* to rend() visits the same positions in the opposite order; no position
\* below true_front is visited.
IterationCoversWindow == IterationOf(q) /\ IterationOf(other)

IterationCoversWindowWitness ==
    /\ q.true_front = 1
    /\ Forward(begin(q), end(q)) = <<1, 2>>
    /\ Backward(rbegin(q), rend(q)) = <<2, 1>>
    /\ other.true_front = 1
    /\ Forward(begin(other), end(other)) = <<1>>

AccessorsOf(x) ==
    ~empty(x) =>
        /\ front_index(x) = x.true_front
        /\ back_index(x) = Len(x.data_.elems) - 1
        /\ data(x) = x.true_front
        /\ \A pos \in 0..(size(x) - 1) :
              /\ subscript_index(x, pos) = x.true_front + pos
              /\ subscript_index(x, pos) >= x.true_front
              /\ subscript_index(x, pos) < Len(x.data_.elems)
              /\ operator_subscript(x, pos) = Window(x)[pos + 1]
        /\ front_index(x) >= x.true_front
        /\ front_index(x) < Len(x.data_.elems)
        /\ back_index(x) >= x.true_front
        /\ back_index(x) < Len(x.data_.elems)
        /\ data(x) >= x.true_front
        /\ data(x) < Len(x.data_.elems)
        /\ front(x) = Window(x)[1]
        /\ back(x) = Window(x)[size(x)]
        /\ front_index(x) = subscript_index(x, 0)
        /\ back_index(x) = subscript_index(x, size(x) - 1)
        /\ front(x) = operator_subscript(x, 0)
        /\ back(x) = operator_subscript(x, size(x) - 1)

\* C20: on a non-empty queue front() reads position true_front, back()
\* reads position L-1, operator[](pos) with pos < size() reads position
\* true_front + pos and data() addresses position true_front; every
\* position read lies in [true_front, L), front() is operator[](0) and
\* back() is operator[](size() - 1).
AccessorsInsideWindow == AccessorsOf(q) /\ AccessorsOf(other)

AccessorsInsideWindowWitness ==
    /\ q.true_front > 0
    /\ size(q) >= 2
    /\ front(q) # q.data_.elems[1]
    /\ front(q) # back(q)
    /\ operator_subscript(q, 1) = back(q)

\* ------------------------------------- allocation failure: SpecAlloc
\* The capacity-changing operations on q, each with the memory left at the
\* call chosen freely.  op names the last call, arg is 1 when it threw and
\* 0 when it returned.  Pushes stop at MaxLen elements in the buffer.
Limits == 0..(2 * MaxLen + 1)

Flag(r) == IF r.thrown THEN 1 ELSE 0

AllocGhosts == <<fifo, nPush, nPop, budget>>

AllocPush ==
    /\ Len(q.data_.elems) < MaxLen
    /\ \E val \in Values, g \in Growth, limit \in Limits :
          LET r == try_push(Begin(q), val, g, limit)
          IN  q' = r.q /\ arg' = Flag(r)
    /\ op' = "push"
    /\ UNCHANGED other
    /\ UNCHANGED AllocGhosts

AllocEmplace ==
    /\ Len(q.data_.elems) < MaxLen
    /\ \E val \in Values, g \in Growth, limit \in Limits :
          LET r == try_emplace(Begin(q), val, g, limit)
          IN  q' = r.q /\ arg' = Flag(r)
    /\ op' = "emplace"
    /\ UNCHANGED other
    /\ UNCHANGED AllocGhosts

AllocPop ==
    /\ ~empty(q)
    /\ \E g \in Growth, limit \in Limits :
          LET r == try_pop(Begin(q), g, limit)
          IN  q' = r.q /\ arg' = Flag(r)
    /\ op' = "pop"
    /\ UNCHANGED other
    /\ UNCHANGED AllocGhosts

AllocReserve ==
    /\ \E new_size \in 0..(MaxLen + 1), g \in Growth, limit \in Limits :
          LET r == try_reserve(Begin(q), new_size, g, limit)
          IN  q' = r.q /\ arg' = Flag(r)
    /\ op' = "reserve"
    /\ UNCHANGED other
    /\ UNCHANGED AllocGhosts

AllocShrinkToFit ==
    /\ \E g \in Growth, limit \in Limits :
          LET r == try_shrink_to_fit(Begin(q), g, limit)
          IN  q' = r.q /\ arg' = Flag(r)
    /\ op' = "shrink_to_fit"
    /\ UNCHANGED other
    /\ UNCHANGED AllocGhosts

AllocCompressAndReserve ==
    /\ \E m \in Mults, g \in Growth, limit \in Limits :
          LET r == try_compress_and_reserve(Begin(q), m[1], m[2], g, limit)
          IN  q' = r.q /\ arg' = Flag(r)
    /\ op' = "compress_and_reserve"
    /\ UNCHANGED other
    /\ UNCHANGED AllocGhosts

NextAlloc ==
    \/ AllocPush
    \/ AllocEmplace
    \/ AllocPop
    \/ AllocReserve
    \/ AllocShrinkToFit
    \/ AllocCompressAndReserve

SpecAlloc == Init /\ [][NextAlloc]_vars

CapacityChanging ==
    {"push", "emplace", "pop", "reserve", "shrink_to_fit", "compress_and_reserve"}

\* C21: a capacity-changing operation whose allocation fails leaves the
\* queue in the state it had when the operation was called: same buffer,
\* true_front and capacity.
StrongExceptionSafety ==
    [][(op' \in CapacityChanging /\ arg' = 1) => State(q') = State(q)]_vars

\* --------------------------- failing copy assignment: SpecCopyAlloc
\* q = other with the memory left at the call chosen freely, between pushes
\* and pops on both queues.  op names the last call, arg is 1 when the
\* assignment threw and 0 otherwise.
CopyAllocSourcePush ==
    /\ Len(other.data_.elems) < MaxLen
    /\ \E val \in Values, g \in Growth : other' = push(Begin(other), val, g)
    /\ op' = "source_push"
    /\ arg' = 0
    /\ UNCHANGED q
    /\ UNCHANGED AllocGhosts

CopyAllocSourcePop ==
    /\ ~empty(other)
    /\ \E g \in Growth : other' = pop(Begin(other), g)
    /\ op' = "source_pop"
    /\ arg' = 0
    /\ UNCHANGED q
    /\ UNCHANGED AllocGhosts

CopyAllocPush ==
    /\ Len(q.data_.elems) < MaxLen
    /\ \E val \in Values, g \in Growth : q' = push(Begin(q), val, g)
    /\ op' = "push"
    /\ arg' = 0
    /\ UNCHANGED other
    /\ UNCHANGED AllocGhosts

CopyAllocPop ==
    /\ ~empty(q)
    /\ \E g \in Growth : q' = pop(Begin(q), g)
    /\ op' = "pop"
    /\ arg' = 0
    /\ UNCHANGED other
    /\ UNCHANGED AllocGhosts

\* q = other
CopyAllocAssign ==
    /\ \E limit \in 0..MaxLen :
          LET r == try_copy_assign(Begin(q), other, limit)
          IN  q' = r.q /\ arg' = Flag(r)
    /\ op' = "copy_assign"
    /\ UNCHANGED other
    /\ UNCHANGED AllocGhosts

NextCopyAlloc ==
    \/ CopyAllocSourcePush
    \/ CopyAllocSourcePop
    \/ CopyAllocPush
    \/ CopyAllocPop
    \/ CopyAllocAssign

SpecCopyAlloc == Init /\ [][NextCopyAlloc]_vars

FrameLen == MaxLen - 1

FramePush ==
    /\ Len(q.data_.elems) < MaxLen
    /\ \E val \in Values, g \in Growth : q' = push(Begin(q), val, g)
    /\ op' = "push"
    /\ arg' = 0
    /\ UNCHANGED other
    /\ UNCHANGED AllocGhosts

FrameEmplace ==
    /\ Len(q.data_.elems) < MaxLen
    /\ \E val \in Values, g \in Growth : q' = emplace(Begin(q), val, g)
    /\ op' = "emplace"
    /\ arg' = 0
    /\ UNCHANGED other
    /\ UNCHANGED AllocGhosts

FramePop ==
    /\ ~empty(q)
    /\ \E g \in Growth : q' = pop(Begin(q), g)
    /\ op' = "pop"
    /\ arg' = 0
    /\ UNCHANGED other
    /\ UNCHANGED AllocGhosts

FrameReserve ==
    /\ \E new_size \in 0..MaxLen, g \in Growth :
          q' = reserve(Begin(q), new_size, g)
    /\ op' = "reserve"
    /\ arg' = 0
    /\ UNCHANGED other
    /\ UNCHANGED AllocGhosts

FrameShrinkToFit ==
    /\ \E g \in Growth : q' = shrink_to_fit(Begin(q), g)
    /\ op' = "shrink_to_fit"
    /\ arg' = 0
    /\ UNCHANGED other
    /\ UNCHANGED AllocGhosts

FrameCompressAndReserve ==
    /\ \E m \in Mults, g \in Growth :
          q' = compress_and_reserve(Begin(q), m[1], m[2], g)
    /\ op' = "compress_and_reserve"
    /\ arg' = 0
    /\ UNCHANGED other
    /\ UNCHANGED AllocGhosts

FrameClear ==
    /\ q' = clear(Begin(q))
    /\ op' = "clear"
    /\ arg' = 0
    /\ UNCHANGED other
    /\ UNCHANGED AllocGhosts

FrameAssign ==
    /\ \E s \in SeqsUpTo(FrameLen) :
          /\ q' = assign(Begin(q), s)
          /\ arg' = s
    /\ op' = "assign"
    /\ UNCHANGED other
    /\ UNCHANGED AllocGhosts

FrameCopyAssign ==
    /\ q' = copy_assign(Begin(q), other)
    /\ op' = "copy_assign"
    /\ arg' = 0
    /\ UNCHANGED other
    /\ UNCHANGED AllocGhosts

FrameSwap ==
    /\ Len(q.data_.elems) <= FrameLen
    /\ q' = swap(Begin(q), Begin(other))[1]
    /\ other' = swap(Begin(q), Begin(other))[2]
    /\ op' = "swap"
    /\ arg' = 0
    /\ UNCHANGED AllocGhosts

\* empty, size, front, back, operator[], data, the iterators and the
\* comparisons are const or hand out references: they assign no member
FrameObserve ==
    /\ op' = "observe"
    /\ arg' = 0
    /\ q' = Begin(q)
    /\ UNCHANGED other
    /\ UNCHANGED AllocGhosts

NextFrame ==
    \/ FramePush
    \/ FrameEmplace
    \/ FramePop
    \/ FrameReserve
    \/ FrameShrinkToFit
    \/ FrameCompressAndReserve
    \/ FrameClear
    \/ FrameAssign
    \/ FrameCopyAssign
    \/ FrameSwap
    \/ FrameObserve

SpecFrame == Init /\ [][NextFrame]_vars

\* C23: clear() leaves the queue empty, with true_front 0 and buffer length
\* 0, and with the capacity it had before the call.
ClearKeepsCapacity ==
    [][op' = "clear" =>
          /\ size(q') = 0
          /\ empty(q')
          /\ q'.true_front = 0
          /\ Len(q'.data_.elems) = 0
          /\ q'.data_.capacity = q.data_.capacity
          /\ State(other') = State(other)]_vars

ClearKeepsCapacityWitness ==
    /\ op = "clear"
    /\ q.data_.capacity = MaxLen
    /\ empty(q)
    /\ q.true_front = 0

\* C24: a.swap(b) leaves a with b's former buffer, capacity and true_front
\* and b with a's; a second swap restores both; both satisfy the structural
\* invariant after the swap.
SwapExchanges ==
    [][op' = "swap" =>
          /\ State(q') = State(other)
          /\ State(other') = State(q)
          /\ Window(q') = Window(other)
          /\ Window(other') = Window(q)
          /\ State(swap(q', other')[1]) = State(q)
          /\ State(swap(q', other')[2]) = State(other)
          /\ Structural(q')
          /\ Structural(other')]_vars

SwapExchangesWitness ==
    /\ op = "swap"
    /\ q.true_front = 1
    /\ other.true_front = 0
    /\ size(other) > 0
    /\ q.data_.capacity # other.data_.capacity
    /\ Window(q) # Window(other)

\* one call, seen from both sides: what may change true_front, and what the
\* calls that must not touch it leave alone
FrameStep(swapToo) ==
    /\ q'.true_front # q.true_front =>
          \/ op' = "pop" /\ q'.compactions = 0 /\ q'.true_front = q.true_front + 1
          \/ q'.compactions > 0 /\ q'.true_front = 0
          \/ op' \in {"clear", "assign", "copy_assign"} /\ q'.true_front = 0
          \/ swapToo /\ op' = "swap" /\ q'.true_front = other.true_front
    /\ other'.true_front # other.true_front =>
          swapToo /\ op' = "swap" /\ other'.true_front = q.true_front
    /\ (op' \in {"push", "emplace"} /\ Len(q.data_.elems) < q.data_.capacity) =>
          /\ q'.true_front = q.true_front
          /\ q'.data_.capacity = q.data_.capacity
          /\ q'.compactions = 0
          /\ q'.direct = 0
          /\ SubSeq(q'.data_.elems, 1, Len(q.data_.elems)) = q.data_.elems
    /\ op' = "observe" => (State(q') = State(q) /\ State(other') = State(other))

\* C26 as stated: true_front changes only by pop (plus 1), by the
\* compaction (to 0) and by clear, assign and reconstruction (to 0); a
\* push or emplace on a buffer that is not full and the read-only members
\* leave true_front and the buffer alone.
FrontOffsetFrameAsStated == [][FrameStep(FALSE)]_vars

\* C26, amended: the same, with swap as a fourth way: it exchanges the
\* true_front of the two queues.
FrontOffsetFrame == [][FrameStep(TRUE)]_vars

FrontOffsetFrameWitness ==
    /\ op = "push"
    /\ q.true_front > 0
    /\ q.compactions = 0
    /\ other.true_front > 0
    /\ size(other) > 0

\* ----------------------------------- built two ways: SpecBuild
\* q is a default-constructed queue that is pushed to; fifo is the sequence
\* of the values pushed.  At any time other is constructed from the list of
\* those values.  op names the last call.
BuildPush ==
    /\ nPush < MaxPush
    /\ \E val \in Values, g \in Growth :
          /\ q' = push(Begin(q), val, g)
          /\ fifo' = Append(fifo, val)
    /\ nPush' = nPush + 1
    /\ op' = "push"
    /\ UNCHANGED <<other, nPop, arg, budget>>

\* flat_queue other(first, last) / flat_queue other{...} over the values in
\* fifo
BuildConstruct ==
    /\ other' = flat_queue_from(fifo)
    /\ op' = "construct"
    /\ UNCHANGED <<q, fifo, nPush, nPop, arg, budget>>

NextBuild ==
    \/ BuildPush
    \/ BuildConstruct

SpecBuild == Init /\ [][NextBuild]_vars

\* C25: the queue constructed from a list s compares equal to, and has the
\* logical contents and size of, a default-constructed queue on which the
\* elements of s were pushed in order.
ConstructEqualsPushes ==
    op = "construct" =>
        /\ operator_eq(other, q)
        /\ operator_eq(q, other)
        /\ ~operator_ne(other, q)
        /\ Window(other) = Window(q)
        /\ size(other) = size(q)
        /\ Window(other) = fifo
        /\ other.true_front = 0

ConstructEqualsPushesWitness ==
    /\ op = "construct"
    /\ size(other) = 4
    /\ other.data_.capacity # q.data_.capacity
    /\ front(other) # back(other)

\* ----------------------------------- cost of push and pop: SpecAmortized
\* Pushes and pops on q from the empty queue, in any order.  nPush and nPop
\* count the calls; arg is the number of elements moved so far by
\* compress_and_reserve: its std::move(begin(), end(), ...) moves size()
\* elements, the ones data_ holds after the compaction.
AmortizedPushes == 4 * MaxPush

AmortizedPush ==
    /\ nPush < AmortizedPushes
    /\ \E g \in Growth :
          LET r == push(Begin(q), 1 + (nPush % 2), g)
          IN  /\ q' = r
              /\ arg' = arg + (IF r.compactions > 0
                               THEN Len(r.data_.elems) - 1 ELSE 0)
    /\ nPush' = nPush + 1
    /\ op' = "push"
    /\ UNCHANGED <<other, fifo, nPop, budget>>

AmortizedPop ==
    /\ ~empty(q)
    /\ \E g \in Growth :
          LET r == pop(Begin(q), g)
          IN  /\ q' = r
              /\ arg' = arg + (IF r.compactions > 0
                               THEN Len(r.data_.elems) ELSE 0)
    /\ nPop' = nPop + 1
    /\ op' = "pop"
    /\ UNCHANGED <<other, fifo, nPush, budget>>

NextAmortized ==
    \/ AmortizedPush
    \/ AmortizedPop

SpecAmortized == Init /\ [][NextAmortized]_vars

\* C27: push and pop are amortized O(1): after any k pushes and pops from
\* the empty queue the compactions have moved at most 3 * k elements in
\* total.
AmortizedConstant == arg <= 3 * (nPush + nPop)

AmortizedConstantWitness ==
    /\ nPush = AmortizedPushes
    /\ nPop >= MaxPush
    /\ arg > nPush + nPop
    /\ q.true_front > 0

\* ----------------------------------- assignment of contents: SpecAssign
\* push and pop on q, assign(first, last) / assign(init), and q = {...};
\* op names the last call ("no_return" for an assignment from a list that
\* did not come back: the program is over), arg is the sequence given to
\* the assignment.
AssignPush ==
    /\ op # "no_return"
    /\ Len(q.data_.elems) < MaxLen
    /\ \E val \in Values, g \in Growth : q' = push(Begin(q), val, g)
    /\ op' = "push"
    /\ UNCHANGED <<other, arg>>
    /\ UNCHANGED AllocGhosts

AssignPop ==
    /\ op # "no_return"
    /\ ~empty(q)
    /\ \E g \in Growth : q' = pop(Begin(q), g)
    /\ op' = "pop"
    /\ UNCHANGED <<other, arg>>
    /\ UNCHANGED AllocGhosts

AssignRange ==
    /\ op # "no_return"
    /\ \E s \in SeqsUpTo(MaxLen) :
          /\ q' = assign(Begin(q), s)
          /\ arg' = s
    /\ op' = "assign"
    /\ UNCHANGED other
    /\ UNCHANGED AllocGhosts

AssignList ==
    /\ op # "no_return"
    /\ \E s \in SeqsUpTo(MaxLen) : \E o \in assign_list(Begin(q), s) :
          /\ q' = o.q
          /\ arg' = s
          /\ op' = IF o.returned THEN "assign_list" ELSE "no_return"
    /\ UNCHANGED other
    /\ UNCHANGED AllocGhosts

NextAssign ==
    \/ AssignPush
    \/ AssignPop
    \/ AssignRange
    \/ AssignList

SpecAssign == Init /\ [][NextAssign]_vars

\* C28: assign(range), assign(list) and assignment from a literal list, on
\* a queue in any state, complete with the logical contents exactly the
\* given elements in order, size() their count and true_front 0.
AssignReplaces ==
    [][op' \in {"assign", "assign_list", "no_return"} =>
          /\ op' # "no_return"
          /\ Window(q') = arg'
          /\ size(q') = Len(arg')
          /\ q'.true_front = 0]_vars

\* ------------------------------------------------- dead space, draining
DeadSpaceOf(x) ==
    /\ x.true_front <= Len(x.data_.elems) \div 2
    /\ 2 * size(x) >= Len(x.data_.elems)
    /\ empty(x) => (x.true_front = 0 /\ Len(x.data_.elems) = 0)

\* C29: the dead prefix is at most half the buffer: true_front <=
\* floor(L / 2), so size() >= ceil(L / 2), and an empty queue has
\* true_front 0 and buffer length 0.
DeadSpaceBound == DeadSpaceOf(q) /\ DeadSpaceOf(other)

DeadSpaceBoundWitness ==
    /\ q.true_front = 1
    /\ Len(q.data_.elems) = 2
    /\ q.data_.capacity > 2
    /\ other.true_front = 1
    /\ Len(other.data_.elems) = 3

\* C30: a pop() that removes the last logical element compacts: the queue
\* ends with buffer length 0, true_front 0 and capacity 0, whatever the
\* capacity was.
DrainReleases ==
    [][(op' = "pop" /\ size(q) = 1) =>
          /\ q'.compactions = 1
          /\ Len(q'.data_.elems) = 0
          /\ q'.true_front = 0
          /\ q'.data_.capacity = 0
          /\ empty(q')]_vars

DrainReleasesWitness ==
    /\ op = "pop"
    /\ empty(q)
    /\ q.data_.capacity = 0
    /\ q.compactions = 1
    /\ nPop >= 2
    /\ nPush = nPop

\* ----------------------------------- push, emplace, pop only: SpecQueue
\* A default-constructed queue used as a queue: push, emplace and pop in any
\* order, nPush and nPop counting the calls.
QueuePushes == 4 * MaxPush

QueuePush ==
    /\ nPush < QueuePushes
    /\ \E g \in Growth : q' = push(Begin(q), 1 + (nPush % 2), g)
    /\ nPush' = nPush + 1
    /\ UNCHANGED <<other, fifo, nPop, op, arg, budget>>

QueueEmplace ==
    /\ nPush < QueuePushes
    /\ \E g \in Growth : q' = emplace(Begin(q), 1 + (nPush % 2), g)
    /\ nPush' = nPush + 1
    /\ UNCHANGED <<other, fifo, nPop, op, arg, budget>>

QueuePop ==
    /\ ~empty(q)
    /\ \E g \in Growth : q' = pop(Begin(q), g)
    /\ nPop' = nPop + 1
    /\ UNCHANGED <<other, fifo, nPush, op, arg, budget>>

NextQueue ==
    \/ QueuePush
    \/ QueueEmplace
    \/ QueuePop

SpecQueue == Init /\ [][NextQueue]_vars

\* C31: under push, emplace and pop alone the capacity is at most three
\* times the logical size, and a queue of size 0 has capacity 0.
WastedMemoryBound ==
    IF size(q) = 0
    THEN q.data_.capacity = 0
    ELSE q.data_.capacity <= 3 * size(q)

WastedMemoryBoundWitness ==
    /\ size(q) >= 2
    /\ q.true_front > 0
    /\ q.data_.capacity = 3 * size(q)
    /\ nPop > q.true_front

\* ----------------------------- the earlier snapshot: SpecEarlier
\* The earlier version of the class (src/unnamed/part_000, lines 390-602):
\* members data and true_front (a queue record as above, data_ standing for
\* data), push and emplace straight onto the vector, a pop with its own
\* compaction, reserve_space, swap, and relational operators that are
\* friends.  Names carry the prefix earlier_.
earlier_empty(x) == Len(x.data_.elems) = x.true_front

earlier_size(x) == Len(x.data_.elems) - x.true_front

\* flat_queue(const flat_queue& x) : data{x.data}, true_front{x.true_front}
earlier_copy(x) == Queue(vector_from(x.data_.elems), x.true_front)

\* flat_queue(flat_queue&& x): data taken over, true_front copied and then
\* x.true_front = 0.  The pair <<new queue, x after>>.
earlier_move(x) ==
    << Queue(x.data_, x.true_front),
       [x EXCEPT !.data_ = EmptyVector, !.true_front = 0] >>

earlier_push(x, val, g) == on_data(x, vector_push_back(x.data_, val, g))

earlier_emplace(x, val, g) == on_data(x, vector_push_back(x.data_, val, g))

earlier_reserve_space(x, n) == on_data(x, vector_reserve(x.data_, n))

\* pop(): ++true_front; past half of data.size(), tempVec.reserve(size() * 2),
\* std::move(begin(data) + true_front, end(data), begin(tempVec)),
\* swap(data, tempVec), true_front = 0.  The move writes through
\* begin(tempVec), into storage that is reserved and holds no element:
\* undefined behaviour when there is an element to move.  tempVec.size()
\* stays 0 whatever is written, so a call that returns leaves data empty
\* (libstdc++, -O0 and -O2); with checked iterators (_GLIBCXX_DEBUG) the call
\* aborts.  The outcomes as [q |-> the queue, returned |-> whether the call
\* came back].
earlier_pop(x) ==
    LET inc == [x EXCEPT !.true_front = @ + 1]
        tempVec == vector_reserve(EmptyVector, earlier_size(inc) * 2)
        swapped == [inc EXCEPT !.data_ = tempVec,
                               !.true_front = 0,
                               !.compactions = @ + 1]
    IN  IF inc.true_front > Len(inc.data_.elems) \div 2
        THEN IF earlier_size(inc) = 0
             THEN { [q |-> swapped, returned |-> TRUE] }
             ELSE { [q |-> swapped, returned |-> TRUE],
                    [q |-> inc, returned |-> FALSE] }
        ELSE { [q |-> inc, returned |-> TRUE] }

\* operator==: lhs.size() - lhs.true_front against rhs.size() -
\* rhs.true_front (size() has subtracted true_front already; the type is
\* unsigned, and no difference is negative in the states reached), then
\* std::equal from begin(lhs.data) + lhs.true_front to end(lhs.data) against
\* the elements from begin(rhs.data) + rhs.true_front.  When lhs has more
\* logical elements than rhs, std::equal reads past end(rhs.data):
\* undefined behaviour, either answer (or an abort under checked
\* iterators).  The set of the answers a call can give.
earlier_operator_eq(lhs, rhs) ==
    IF earlier_size(lhs) - lhs.true_front # earlier_size(rhs) - rhs.true_front
    THEN {FALSE}
    ELSE IF Len(Window(lhs)) > Len(Window(rhs))
         THEN {TRUE, FALSE}
         ELSE {std_equal(Window(lhs), Window(rhs))}

\* q and other are queues of the earlier class; op names the last call on q
\* ("no_return" for a pop that did not come back: the program is over).
\* Pushes stop at MaxLen elements in the buffer.
EarlierConstruct ==
    /\ op # "no_return"
    /\ \E s \in SeqsUpTo(MaxLen) : q' = flat_queue_from(s)
    /\ op' = "construct"
    /\ UNCHANGED <<other, arg>>
    /\ UNCHANGED AllocGhosts

EarlierCopyConstruct ==
    /\ op # "no_return"
    /\ q' = earlier_copy(other)
    /\ op' = "copy_construct"
    /\ UNCHANGED <<other, arg>>
    /\ UNCHANGED AllocGhosts

EarlierMoveConstruct ==
    /\ op # "no_return"
    /\ q' = earlier_move(other)[1]
    /\ other' = earlier_move(other)[2]
    /\ op' = "move_construct"
    /\ UNCHANGED arg
    /\ UNCHANGED AllocGhosts

EarlierPush ==
    /\ op # "no_return"
    /\ Len(q.data_.elems) < MaxLen
    /\ \E val \in Values, g \in Growth : q' = earlier_push(Begin(q), val, g)
    /\ op' = "push"
    /\ UNCHANGED <<other, arg>>
    /\ UNCHANGED AllocGhosts

EarlierEmplace ==
    /\ op # "no_return"
    /\ Len(q.data_.elems) < MaxLen
    /\ \E val \in Values, g \in Growth : q' = earlier_emplace(Begin(q), val, g)
    /\ op' = "emplace"
    /\ UNCHANGED <<other, arg>>
    /\ UNCHANGED AllocGhosts

EarlierPop ==
    /\ op # "no_return"
    /\ ~earlier_empty(q)
    /\ \E o \in earlier_pop(Begin(q)) :
          /\ q' = o.q
          /\ op' = IF o.returned THEN "pop" ELSE "no_return"
    /\ UNCHANGED <<other, arg>>
    /\ UNCHANGED AllocGhosts

EarlierReserveSpace ==
    /\ op # "no_return"
    /\ \E n \in 0..(MaxLen + 1) : q' = earlier_reserve_space(Begin(q), n)
    /\ op' = "reserve_space"
    /\ UNCHANGED <<other, arg>>
    /\ UNCHANGED AllocGhosts

EarlierSwap ==
    /\ op # "no_return"
    /\ q' = swap(Begin(q), Begin(other))[1]
    /\ other' = swap(Begin(q), Begin(other))[2]
    /\ op' = "swap"
    /\ UNCHANGED arg
    /\ UNCHANGED AllocGhosts

NextEarlier ==
    \/ EarlierConstruct
    \/ EarlierCopyConstruct
    \/ EarlierMoveConstruct
    \/ EarlierPush
    \/ EarlierEmplace
    \/ EarlierPop
    \/ EarlierReserveSpace
    \/ EarlierSwap

SpecEarlier == Init /\ [][NextEarlier]_vars

\* C32: in the earlier snapshot a pop() that triggers the reclaim
\* (true_front > data.size() / 2 after the increment) returns with size()
\* one less than before, the remaining elements as the logical contents in
\* their order, and true_front 0.
EarlierPopKeepsElements ==
    [][(op' \in {"pop", "no_return"}
            /\ q.true_front + 1 > Len(q.data_.elems) \div 2) =>
          /\ op' = "pop"
          /\ earlier_size(q') = earlier_size(q) - 1
          /\ Window(q') = Tail(Window(q))
          /\ q'.true_front = 0]_vars

\* C33: in the earlier snapshot operator== answers true exactly when the
\* logical sizes match and the logical elements are pairwise equal, also
\* with a dead prefix in one or both queues.
EarlierEqualityIsLogical ==
    /\ earlier_operator_eq(q, other) = {SameLogical(Window(q), Window(other))}
    /\ earlier_operator_eq(other, q) = {SameLogical(Window(other), Window(q))}

====
